---------------------------- MODULE Spec2Model ----------------------------
(***************************************************************************)
(* The privileged write/verify worker of caligula: the block-copy engine   *)
(* (WriteOp::execute), the block-verify engine (VerifyOp::execute), the    *)
(* orchestrators that sequence them (writer_process::run, burn::child::    *)
(* Ctx::run) and the status messages they send.                            *)
(*                                                                         *)
(* Bytes are drawn from a two-letter alphabet and all sizes are scaled     *)
(* down; std's BufReader, which both engines put between themselves and    *)
(* the source, keeps its behaviour (fill up to its capacity, serve what is *)
(* buffered, bypass the buffer for reads at least as large as it).         *)
(***************************************************************************)
EXTENDS Integers, Sequences, FiniteSets, TLC

(* ------------------------------ bounds -------------------------------- *)

\* longest source file
MaxLen == 5
\* largest destination capacity
MaxDisk == 5
\* largest buf_size given to an engine by the test harnesses
MaxBuf == 4
\* largest checkpoint_period given to an engine by the test harnesses
MaxPeriod == 2
\* capacity of std::io::BufReader (8192 in std), scaled
DEFAULT_BUF_SIZE == 3
\* largest checkpoint period of the worker runs (32 blocks in the code,
\* scaled to the source lengths of the model)
RunPeriod == 2

\* messages sent over one channel in the framing specification
MaxMsgs == 2

\* outputs the escalated child writes to its stdout
MaxOut == 2

Bytes == {0, 1}

VARIABLES
    file_data,          \* the source file's content (never written)
    checkpoint_period,  \* blocks per checkpoint of the running engine
    args,               \* the worker's configuration
    pc,                 \* position of the process in its code
    st                  \* handles, engine locals and the channel (a record)

vars == <<file_data, checkpoint_period, args, pc, st>>

(* ------------------------------ helpers ------------------------------- *)

\* the source's length
L == Len(file_data)

Min(a, b) == IF a < b THEN a ELSE b

Max(a, b) == IF a > b THEN a ELSE b

SeqsUpTo(S, n) == UNION {[1..k -> S] : k \in 0..n}

\* vec![0u8; n]
Zeros(n) == [j \in 1..n |-> 0]

\* b[..Len(data)] = data, the rest of b kept: what a read into b leaves
Overlay(b, data) ==
    [j \in 1..Len(b) |-> IF j <= Len(data) THEN data[j] ELSE b[j]]

Prefix(s, n) == SubSeq(s, 1, Min(n, Len(s)))

\* Cursor<&[u8]>::read / File::read at `pos` asked for n bytes
CursorRead(data, pos, n) == SubSeq(data, pos + 1, Min(Len(data), pos + n))

(* --------------------------- status messages --------------------------- *)

InitSuccess(size) == [type |-> "InitSuccess", input_file_bytes |-> size]

TotalBytes(s, d) == [type |-> "TotalBytes", src |-> s, dest |-> d]

FinishedWriting(v) == [type |-> "FinishedWriting", verifying |-> v]

Success == [type |-> "Success"]

Error(kind) == [type |-> "Error", kind |-> kind]

IsTerminal(m) == m.type \in {"Success", "Error"}

\* what can go wrong in one step; "none" is the run of the test harnesses
Faults == {"none", "src_read", "dest_write", "dest_flush", "dest_read", "tx",
           "seek", "open_src", "open_dest"}

(* ------------------------------ handles -------------------------------- *)

\* The state an engine works on.  file_pos: the source's cursor; count:
\* CountRead's total on the source; br: what BufReader holds unconsumed;
\* buf / disk_buf: the block buffers; disk, disk_pos: the destination and
\* its cursor; growable: the destination is a regular file that grows;
\* readable: its handle permits reads; dcount: CountWrite's / CountRead's
\* total on the destination; offset: for_each_block's running total;
\* requested_writes / requested_reads: what the destination was asked to
\* do (MockWrite / MockRead keep the same logs); i: blocks done in the
\* current checkpoint period; events: the messages tx has sent;
\* ret: "running" or how the engine (and then run) returned; write_ret /
\* verify_ret: how the write / verify phase of a worker run returned;
\* attempts: the messages tx was called with; src_reads: the length every
\* read of the decompressed source returned; failure: the first failure
\* of the run, the phase it was raised in and the destination I/O done by
\* then; flushes: the number of writes issued before each flush of the
\* destination; faulted: an I/O call or a send of the run has failed.
NewState(disk, growable, readable) ==
    [file_pos |-> 0, count |-> 0, br |-> <<>>, buf |-> <<>>, disk_buf |-> <<>>,
     disk |-> disk, disk_pos |-> 0, growable |-> growable,
     readable |-> readable, dcount |-> 0, offset |-> 0,
     requested_writes |-> <<>>, requested_reads |-> <<>>,
     i |-> 0, events |-> <<>>, ret |-> "running",
     write_ret |-> "none", verify_ret |-> "none",
     attempts |-> <<>>, src_reads |-> <<>>, flushes |-> <<>>,
     faulted |-> FALSE,
     failure |-> [phase |-> "none", kind |-> "none", io |-> 0]]

\* tx(msg): the message goes out, or the closure panics
Tx(s, msg, fault) ==
    IF fault = "tx"
    THEN [s EXCEPT !.ret = "panic", !.attempts = Append(@, msg)]
    ELSE [s EXCEPT !.events = Append(@, msg), !.attempts = Append(@, msg)]

\* CountRead wrapped around the BufReader: the bytes handed out are counted
BufReader_read_mut(s, fd, n) ==
    IF s.br = <<>> /\ n >= DEFAULT_BUF_SIZE
    THEN LET got == CursorRead(fd, s.file_pos, n)
         IN [file_pos |-> s.file_pos + Len(got), count |-> s.count + Len(got),
             br |-> <<>>, out |-> got, inner |-> TRUE]
    ELSE LET filled == IF s.br = <<>>
                       THEN CursorRead(fd, s.file_pos, DEFAULT_BUF_SIZE)
                       ELSE <<>>
             rem == IF s.br = <<>> THEN filled ELSE s.br
             k == Min(n, Len(rem))
         IN [file_pos |-> s.file_pos + Len(filled),
             count |-> s.count + k,
             br |-> SubSeq(rem, k + 1, Len(rem)),
             out |-> SubSeq(rem, 1, k), inner |-> s.br = <<>>]

\* BufReader<CountRead<F>>::read into a buffer of n bytes; identity
\* decompression passes the read through.  out: the bytes returned;
\* inner: the wrapped reader was called.
BufReader_read(s, fd, n) ==
    IF s.br = <<>> /\ n >= DEFAULT_BUF_SIZE
    THEN LET got == CursorRead(fd, s.file_pos, n)
         IN [file_pos |-> s.file_pos + Len(got), count |-> s.count + Len(got),
             br |-> <<>>, out |-> got, inner |-> TRUE]
    ELSE LET filled == IF s.br = <<>>
                       THEN CursorRead(fd, s.file_pos, DEFAULT_BUF_SIZE)
                       ELSE <<>>
             rem == IF s.br = <<>> THEN filled ELSE s.br
             k == Min(n, Len(rem))
         IN [file_pos |-> s.file_pos + Len(filled),
             count |-> s.count + Len(filled),
             br |-> SubSeq(rem, k + 1, Len(rem)),
             out |-> SubSeq(rem, 1, k), inner |-> s.br = <<>>]

\* decompress(cf, reader).read(buf) for CompressionFormat::Identity
decompress_read(s, fd, n) == BufReader_read(s, fd, n)

\* how many bytes the destination takes of a write of n bytes
Accepted(s, n) ==
    IF s.growable THEN n ELSE Min(n, Len(s.disk) - s.disk_pos)

\* disk.write(data): the destination takes what fits, from its cursor on;
\* the write is logged
Disk_write(s, data) ==
    LET n == Accepted(s, Len(data))
        end == Max(Len(s.disk), s.disk_pos + n)
    IN [s EXCEPT
          !.disk = [j \in 1..end |->
                      IF j > s.disk_pos /\ j <= s.disk_pos + n
                      THEN data[j - s.disk_pos] ELSE s.disk[j]],
          !.disk_pos = @ + n,
          !.requested_writes = Append(@, [len |-> Len(data), written |-> n])]

\* CountWrite<D>::write(data): the inner write, its return value counted
CountWrite_write(s, data) ==
    [Disk_write(s, data) EXCEPT !.dcount = @ + Accepted(s, Len(data))]

(* ------------------------------ WriteOp -------------------------------- *)

\* WriteOp::execute entering its loop one block into the period
WriteOp_new_mut(s, buf_size) ==
    [s EXCEPT !.count = 0, !.br = <<>>, !.buf = Zeros(buf_size),
              !.dcount = 0, !.i = 1, !.ret = "running"]

\* WriteOp { file, disk, cf, buf_size, .. }.execute: the locals before the loop
WriteOp_new(s, buf_size) ==
    [s EXCEPT !.count = 0, !.br = <<>>, !.buf = Zeros(buf_size),
              !.dcount = 0, !.i = 0, !.ret = "running"]

\* checkpoint!() reporting the source bytes the engine has read as dest
WriteOp_checkpoint_mut(s, fault, after) ==
    IF fault = "dest_flush" THEN [s EXCEPT !.ret = "Io"]
    ELSE LET t == Tx(s, TotalBytes(s.count, s.count - Len(s.br)), fault)
         IN IF t.ret = "panic" THEN t ELSE [t EXCEPT !.ret = after]

\* checkpoint!() of WriteOp::execute, then `after`
WriteOp_checkpoint(s, fault, after) ==
    IF fault = "dest_flush" THEN [s EXCEPT !.ret = "Io"]
    ELSE LET f == [s EXCEPT !.flushes = Append(@, Len(s.requested_writes))]
             t == Tx(f, TotalBytes(s.count, s.dcount), fault)
         IN IF t.ret = "panic" THEN t ELSE [t EXCEPT !.ret = after]

\* WriteOp::execute writing &buf[..read_bytes]
WriteOp_execute_mut(s, fd, period, fault) ==
    LET r == decompress_read(s, fd, Len(s.buf))
        read_bytes == Len(r.out)
        s1 == [s EXCEPT !.file_pos = r.file_pos, !.count = r.count,
                        !.br = r.br, !.buf = Overlay(@, r.out),
                        !.src_reads = Append(@, read_bytes)]
    IN IF fault = "src_read" /\ r.inner THEN [s EXCEPT !.ret = "Io"]
       ELSE IF read_bytes = 0 THEN WriteOp_checkpoint(s1, fault, "Ok")
       ELSE IF fault = "dest_write" THEN [s1 EXCEPT !.ret = "Io"]
       ELSE LET s2 == [CountWrite_write(s1, Prefix(s1.buf, read_bytes))
                          EXCEPT !.i = @ + 1]
            IN IF s2.i = period
               THEN WriteOp_checkpoint([s2 EXCEPT !.i = 0], fault, "running")
               ELSE s2

\* one iteration of the for loop of WriteOp::execute
WriteOp_execute(s, fd, period, fault) ==
    LET r == decompress_read(s, fd, Len(s.buf))
        read_bytes == Len(r.out)
        s1 == [s EXCEPT !.file_pos = r.file_pos, !.count = r.count,
                        !.br = r.br, !.buf = Overlay(@, r.out),
                        !.src_reads = Append(@, read_bytes)]
    IN IF fault = "src_read" /\ r.inner THEN [s EXCEPT !.ret = "Io"]
       ELSE IF read_bytes = 0 THEN WriteOp_checkpoint(s1, fault, "Ok")
       ELSE IF fault = "dest_write" THEN [s1 EXCEPT !.ret = "Io"]
       ELSE LET s2 == [CountWrite_write(s1, s1.buf) EXCEPT !.i = @ + 1]
            IN IF s2.i = period
               THEN WriteOp_checkpoint([s2 EXCEPT !.i = 0], fault, "running")
               ELSE s2

(* ------------------------ WriteTest (tests.rs) ------------------------- *)

NoArgs == [verify |-> FALSE, target_type |-> "Disk", child |-> "test"]

InitWrite ==
    /\ file_data \in SeqsUpTo(Bytes, MaxLen)
    /\ checkpoint_period \in 1..MaxPeriod
    /\ args = NoArgs
    /\ pc = "WriteOp"
    /\ \E size \in 0..MaxDisk, fill \in Bytes, buf_size \in 1..MaxBuf :
          st = WriteOp_new(NewState([j \in 1..size |-> fill], FALSE, FALSE),
                           buf_size)

\* WriteTest::execute drives WriteOp::execute on in-memory cursors
WriteTest_execute ==
    /\ pc = "WriteOp"
    /\ st.ret = "running"
    /\ st' = WriteOp_execute(st, file_data, checkpoint_period, "none")
    /\ UNCHANGED <<file_data, checkpoint_period, args, pc>>

NextWrite == WriteTest_execute

SpecWrite == InitWrite /\ [][NextWrite]_vars


(* ------------------------------ VerifyOp ------------------------------- *)

\* VerifyOp { file, disk, cf, buf_size, .. }.execute: the locals before the loop
VerifyOp_new(s, buf_size) ==
    [s EXCEPT !.count = 0, !.br = <<>>, !.buf = Zeros(buf_size),
              !.disk_buf = Zeros(buf_size), !.dcount = 0, !.i = 0,
              !.ret = "running"]

\* checkpoint!() of VerifyOp::execute with the two counts exchanged
VerifyOp_checkpoint_mut(s, fault, after) ==
    LET t == Tx(s, TotalBytes(s.dcount, s.count), fault)
    IN IF t.ret = "panic" THEN t ELSE [t EXCEPT !.ret = after]

\* checkpoint!() of VerifyOp::execute, then `after`
VerifyOp_checkpoint(s, fault, after) ==
    LET t == Tx(s, TotalBytes(s.count, s.dcount), fault)
    IN IF t.ret = "panic" THEN t ELSE [t EXCEPT !.ret = after]

\* CountRead<D>::read(&mut disk_buf): the bytes the destination returns
\* overwrite the front of disk_buf; the read is logged (with the length of
\* the source block it belongs to) and counted
CountRead_read(s, src_len) ==
    LET got == CursorRead(s.disk, s.disk_pos, Len(s.disk_buf))
    IN [s EXCEPT
          !.disk_buf = Overlay(@, got),
          !.disk_pos = @ + Len(got),
          !.dcount = @ + Len(got),
          !.requested_reads =
              Append(@, [len |-> Len(s.disk_buf), read |-> Len(got),
                         src |-> src_len])]

\* VerifyOp::execute comparing the whole buffers of a block
VerifyOp_execute_mut(s, fd, period, fault) ==
    LET r == decompress_read(s, fd, Len(s.buf))
        read_bytes == Len(r.out)
        s1 == [s EXCEPT !.file_pos = r.file_pos, !.count = r.count,
                        !.br = r.br, !.buf = Overlay(@, r.out),
                        !.src_reads = Append(@, read_bytes)]
    IN IF fault = "src_read" /\ r.inner THEN [s EXCEPT !.ret = "Io"]
       ELSE IF read_bytes = 0 THEN VerifyOp_checkpoint(s1, fault, "Ok")
       ELSE IF fault = "dest_read" \/ ~s1.readable THEN [s1 EXCEPT !.ret = "Io"]
       ELSE LET s2 == CountRead_read(s1, read_bytes)
            IN IF s2.buf # s2.disk_buf
               THEN [s2 EXCEPT !.ret = "VerificationFailed"]
               ELSE IF s2.i + 1 = period
               THEN VerifyOp_checkpoint([s2 EXCEPT !.i = 0], fault, "running")
               ELSE [s2 EXCEPT !.i = @ + 1]

\* one iteration of the for loop of VerifyOp::execute
VerifyOp_execute(s, fd, period, fault) ==
    LET r == decompress_read(s, fd, Len(s.buf))
        read_bytes == Len(r.out)
        s1 == [s EXCEPT !.file_pos = r.file_pos, !.count = r.count,
                        !.br = r.br, !.buf = Overlay(@, r.out),
                        !.src_reads = Append(@, read_bytes)]
    IN IF fault = "src_read" /\ r.inner THEN [s EXCEPT !.ret = "Io"]
       ELSE IF read_bytes = 0 THEN VerifyOp_checkpoint(s1, fault, "Ok")
       ELSE IF fault = "dest_read" \/ ~s1.readable THEN [s1 EXCEPT !.ret = "Io"]
       ELSE LET s2 == CountRead_read(s1, read_bytes)
            IN IF Prefix(s2.buf, read_bytes) # Prefix(s2.disk_buf, read_bytes)
               THEN [s2 EXCEPT !.ret = "VerificationFailed"]
               ELSE IF s2.i + 1 = period
               THEN VerifyOp_checkpoint([s2 EXCEPT !.i = 0], fault, "running")
               ELSE [s2 EXCEPT !.i = @ + 1]

\* VerifyOp::execute run to its return without faults
RECURSIVE VerifyOp_run(_, _, _)
VerifyOp_run(s, fd, period) ==
    IF s.ret # "running" THEN s
    ELSE VerifyOp_run(VerifyOp_execute(s, fd, period, "none"), fd, period)

(* ------------------------ VerifyTest (tests.rs) ------------------------ *)

InitVerify ==
    /\ file_data \in SeqsUpTo(Bytes, MaxLen)
    /\ checkpoint_period \in 1..MaxPeriod
    /\ args = NoArgs
    /\ pc = "VerifyOp"
    /\ \E disk \in SeqsUpTo(Bytes, MaxDisk), buf_size \in 1..MaxBuf :
          st = VerifyOp_new(NewState(disk, FALSE, TRUE), buf_size)

\* VerifyTest::execute drives VerifyOp::execute on in-memory cursors
VerifyTest_execute ==
    /\ pc = "VerifyOp"
    /\ st.ret = "running"
    /\ st' = VerifyOp_execute(st, file_data, checkpoint_period, "none")
    /\ UNCHANGED <<file_data, checkpoint_period, args, pc>>

NextVerify == VerifyTest_execute

SpecVerify == InitVerify /\ [][NextVerify]_vars

(* ----------------------- properties of the engines ---------------------- *)

\* the first offset (from 0) below L at which the destination differs
\* from the source, L if there is none
FirstDiff ==
    LET D == {k \in 0..(L - 1) :
                 k >= Len(st.disk) \/ st.disk[k + 1] # file_data[k + 1]}
    IN IF D = {} THEN L ELSE CHOOSE k \in D : \A j \in D : k <= j

\* C1: write completeness.  When WriteOp::execute returns Ok and the
\* destination's capacity is at least the source's length L, the first L
\* bytes of the destination are the source's bytes.
C1_WriteCompleteness ==
    (pc = "WriteOp" /\ st.ret = "Ok" /\ Len(st.disk) >= L)
        => Prefix(st.disk, L) = file_data

\* C2: verify soundness.  When VerifyOp::execute returns Ok the destination
\* holds at least L bytes and its first L bytes are the source's bytes.
C2_VerifySoundness ==
    (pc = "VerifyOp" /\ st.ret = "Ok")
        => (Len(st.disk) >= L /\ Prefix(st.disk, L) = file_data)

\* C6: a short write is a hard error.  A destination write that takes fewer
\* bytes than it was offered is the last write WriteOp::execute issues and
\* the engine has returned Err(EndOfOutput).
C6_ShortWriteIsEndOfOutput ==
    pc = "WriteOp" =>
        \A k \in 1..Len(st.requested_writes) :
            st.requested_writes[k].written < st.requested_writes[k].len
                => (k = Len(st.requested_writes) /\ st.ret = "EndOfOutput")

\* C7: verify detects a short destination.  When a destination read yields
\* fewer bytes than the source read of the same block, VerifyOp::execute has
\* returned Err(EndOfOutput).
C7_ShortDestinationIsEndOfOutput ==
    pc = "VerifyOp" =>
        \A k \in 1..Len(st.requested_reads) :
            st.requested_reads[k].read < st.requested_reads[k].src
                => st.ret = "EndOfOutput"

\* C8: verify fail-fast.  For a destination of at least L bytes that differs
\* from the source at an offset below L, VerifyOp::execute returns
\* Err(VerificationFailed) and has read exactly the blocks up to the one
\* holding the first difference.
C8_VerifyFailFast ==
    (pc = "VerifyOp" /\ st.ret # "running" /\ Len(st.disk) >= L
       /\ FirstDiff < L)
        => /\ st.ret = "VerificationFailed"
           /\ Len(st.requested_reads) = (FirstDiff \div Len(st.buf)) + 1

\* C9: verify symmetry.  When the first L bytes of the destination are the
\* source's bytes, VerifyOp::execute returns Ok, whatever buf_size is.
C9_VerifySymmetry ==
    (pc = "VerifyOp" /\ st.ret # "running" /\ Len(st.disk) >= L
       /\ Prefix(st.disk, L) = file_data)
        => st.ret = "Ok"

\* C10: verification covers only the source length.  Every destination that
\* agrees with this one on the first L bytes (both at least L long) makes
\* VerifyOp::execute return the same result.
C10_VerifyCoversSourceLengthOnly ==
    (pc = "VerifyOp" /\ st.ret # "running" /\ Len(st.disk) >= L)
        => \A other \in SeqsUpTo(Bytes, MaxDisk) :
              (Len(other) >= L /\ Prefix(other, L) = Prefix(st.disk, L))
                  => VerifyOp_run(VerifyOp_new(NewState(other, FALSE, TRUE),
                                               Len(st.buf)),
                                  file_data, checkpoint_period).ret = st.ret


(* ----------------------- writer_process::main / run -------------------- *)

\* buf_size of run: ByteSize::kib(512), scaled; like the code's it is not
\* below BufReader's capacity
run_buf_size == DEFAULT_BUF_SIZE

\* the destination reads and writes done so far
DestIO(s) == Len(s.requested_writes) + Len(s.requested_reads)

\* the step from s to n had the destination take or give fewer bytes than
\* the block has
ShortIO(s, n) ==
    \/ /\ Len(n.requested_writes) > Len(s.requested_writes)
       /\ LET w == n.requested_writes[Len(n.requested_writes)]
          IN w.written < w.len
    \/ /\ Len(n.requested_reads) > Len(s.requested_reads)
       /\ LET r == n.requested_reads[Len(n.requested_reads)]
          IN r.read < r.src

\* n, the outcome of a step of `phase` from s under `fault`, with the
\* run's first failure noted: a short transfer, the error returned, or the
\* I/O error an unwrap / expect panicked on
Raised(s, n, fault, phase) ==
    LET kind == IF ShortIO(s, n) THEN "EndOfOutput"
                ELSE IF n.ret \in {"Io", "EndOfOutput", "VerificationFailed"}
                THEN n.ret
                ELSE IF n.ret = "panic" /\ fault # "tx" THEN "Io"
                ELSE "none"
        m == [n EXCEPT !.faulted =
                 @ \/ (fault # "none" /\ n.ret \notin {"running", "Ok"})]
    IN IF s.failure.kind # "none" \/ kind = "none" THEN m
       ELSE [m EXCEPT !.failure = [phase |-> phase, kind |-> kind,
                                   io |-> DestIO(n)]]

\* how a step's outcome moves the process: on in the same phase, to the
\* final message of main, or out by a panic
After(s, phase) ==
    IF s.ret = "running" THEN phase
    ELSE IF s.ret = "panic" THEN "exit" ELSE "final"

\* run reporting a destination it cannot open itself before returning the
\* error to main
run_open_mut(s, size, fault) ==
    IF fault = "open_src" THEN [s EXCEPT !.ret = "panic"]
    ELSE IF fault = "open_dest"
    THEN [Tx(s, Error("Io"), "none") EXCEPT !.ret = "Io"]
    ELSE IF fault = "seek" THEN [s EXCEPT !.ret = "Io"]
    ELSE LET t == Tx(s, InitSuccess(size), fault)
         IN IF t.ret = "panic" THEN t ELSE WriteOp_new(t, run_buf_size)

\* run, up to the InitSuccess message: File::open(src).unwrap_or_log(), the
\* two seeks, the destination opened per target type, tx(InitSuccess)
run_open(s, size, fault) ==
    IF fault = "open_src" THEN [s EXCEPT !.ret = "panic"]
    ELSE IF fault \in {"seek", "open_dest"} THEN [s EXCEPT !.ret = "Io"]
    ELSE LET t == Tx(s, InitSuccess(size), fault)
         IN IF t.ret = "panic" THEN t ELSE WriteOp_new(t, run_buf_size)

\* run without the early return of `if !args.verify`
run_finished_writing_mut(s, verify, fault) ==
    LET t == Tx(s, FinishedWriting(verify), fault)
    IN IF t.ret = "panic" THEN t
       ELSE IF fault = "seek" THEN [t EXCEPT !.ret = "Io"]
       ELSE VerifyOp_new([t EXCEPT !.file_pos = 0, !.disk_pos = 0],
                         run_buf_size)

\* run, from WriteOp's Ok to VerifyOp's start: tx(FinishedWriting), the
\* early return without verify, the two seeks to 0
run_finished_writing(s, verify, fault) ==
    LET t == Tx(s, FinishedWriting(verify), fault)
    IN IF t.ret = "panic" THEN t
       ELSE IF ~verify THEN [t EXCEPT !.ret = "Ok"]
       ELSE IF fault = "seek" THEN [t EXCEPT !.ret = "Io"]
       ELSE VerifyOp_new([t EXCEPT !.file_pos = 0, !.disk_pos = 0],
                         run_buf_size)

\* main reporting Success whatever run returned
final_msg_mut(ret) == Success

\* main: the message that ends the run
final_msg(ret) == IF ret = "Ok" THEN Success ELSE Error(ret)

wp_run_open ==
    /\ args.child = "writer_process"
    /\ pc = "run"
    /\ \E fault \in {"none", "open_src", "seek", "open_dest", "tx"} :
          st' = Raised(st, run_open(st, L, fault), fault, "open")
    /\ pc' = After(st', "WriteOp")
    /\ UNCHANGED <<file_data, checkpoint_period, args>>

wp_run_write ==
    /\ args.child = "writer_process"
    /\ pc = "WriteOp"
    /\ st.ret = "running"
    /\ \E fault \in {"none", "src_read", "dest_write", "dest_flush", "tx"} :
          LET n == Raised(st, WriteOp_execute(st, file_data,
                                              checkpoint_period, fault),
                          fault, "write")
          IN st' = IF n.ret = "running" THEN n
                   ELSE [n EXCEPT !.write_ret = n.ret]
    /\ pc' = IF st'.ret = "Ok" THEN "WriteOp" ELSE After(st', "WriteOp")
    /\ UNCHANGED <<file_data, checkpoint_period, args>>

wp_run_finished_writing ==
    /\ args.child = "writer_process"
    /\ pc = "WriteOp"
    /\ st.ret = "Ok"
    /\ \E fault \in {"none", "tx", "seek"} :
          st' = Raised(st, run_finished_writing(st, args.verify, fault),
                       fault, "verify")
    /\ pc' = After(st', "VerifyOp")
    /\ UNCHANGED <<file_data, checkpoint_period, args>>

wp_run_verify ==
    /\ args.child = "writer_process"
    /\ pc = "VerifyOp"
    /\ st.ret = "running"
    /\ \E fault \in {"none", "src_read", "dest_read", "tx"} :
          LET n == Raised(st, VerifyOp_execute(st, file_data,
                                               checkpoint_period, fault),
                          fault, "verify")
          IN st' = IF n.ret = "running" THEN n
                   ELSE [n EXCEPT !.verify_ret = n.ret]
    /\ pc' = After(st', "VerifyOp")
    /\ UNCHANGED <<file_data, checkpoint_period, args>>

wp_main ==
    /\ args.child = "writer_process"
    /\ pc = "final"
    /\ \E fault \in {"none", "tx"} :
          st' = [Tx(st, final_msg(st.ret), fault) EXCEPT !.ret = st.ret]
    /\ pc' = "exit"
    /\ UNCHANGED <<file_data, checkpoint_period, args>>

(* ---------------------- burn::child::main / Ctx::run ------------------- *)

\* block_size of for_each_block: ByteSize::kb(128), scaled; like the code's
\* it is not below BufReader's capacity
block_size == DEFAULT_BUF_SIZE

\* StatusReporter::send_msg: the message goes out, or an expect panics
send_msg(s, msg, fault) == Tx(s, msg, fault)

\* the locals of for_each_block before its loop
for_each_block_new(s) ==
    [s EXCEPT !.br = <<>>, !.buf = Zeros(block_size),
              !.disk_buf = Zeros(block_size), !.offset = 0, !.i = 0,
              !.ret = "running"]

\* the closure of Ctx::burn writing the whole block buffer
burn_block_mut(s, block, fault) ==
    IF fault = "dest_write" THEN [s EXCEPT !.ret = "panic"]
    ELSE LET w == Disk_write(s, s.buf)
         IN IF Accepted(s, Len(s.buf)) # Len(s.buf)
            THEN [w EXCEPT !.ret = "EndOfOutput"] ELSE w

\* the closure of Ctx::burn: the block is written; a failed write panics,
\* a short one is EndOfOutput
burn_block(s, block, fault) ==
    IF fault = "dest_write" THEN [s EXCEPT !.ret = "panic"]
    ELSE LET w == Disk_write(s, block)
         IN IF Accepted(s, Len(block)) # Len(block)
            THEN [w EXCEPT !.ret = "EndOfOutput"] ELSE w

\* the closure of Ctx::verify: as many bytes as the block has are read of
\* the destination; a failed read panics, a short one is EndOfOutput, a
\* difference VerificationFailed
verify_block(s, block, fault) ==
    IF fault = "dest_read" THEN [s EXCEPT !.ret = "panic"]
    ELSE LET got == CursorRead(s.disk, s.disk_pos, Len(block))
             r == [s EXCEPT
                     !.disk_buf = Overlay(@, got),
                     !.disk_pos = @ + Len(got),
                     !.requested_reads =
                         Append(@, [len |-> Len(block), read |-> Len(got),
                                    src |-> Len(block)])]
         IN IF Len(got) # Len(block) THEN [r EXCEPT !.ret = "EndOfOutput"]
            ELSE IF block # Prefix(r.disk_buf, Len(block))
            THEN [r EXCEPT !.ret = "VerificationFailed"]
            ELSE r

\* ctx.send_msg(TotalBytes { src: stream_position()?, dest: offset }), then
\* `after`
for_each_block_report(s, fault, after) ==
    IF fault = "seek" THEN [s EXCEPT !.ret = "Io"]
    ELSE LET t == send_msg(s, TotalBytes(s.file_pos - Len(s.br), s.offset),
                           fault)
         IN IF t.ret = "panic" THEN t ELSE [t EXCEPT !.ret = after]

\* one iteration of the for loop of for_each_block; mode selects the
\* closure ("burn" or "verify")
for_each_block(s, fd, period, mode, fault) ==
    LET r == BufReader_read(s, fd, Len(s.buf))
        read_bytes == Len(r.out)
        s1 == [s EXCEPT !.file_pos = r.file_pos, !.br = r.br,
                        !.buf = Overlay(@, r.out),
                        !.src_reads = Append(@, read_bytes)]
    IN IF fault = "src_read" /\ r.inner THEN [s EXCEPT !.ret = "Io"]
       ELSE IF read_bytes = 0 THEN for_each_block_report(s1, fault, "Ok")
       ELSE LET a == IF mode = "burn" THEN burn_block(s1, r.out, fault)
                     ELSE verify_block(s1, r.out, fault)
            IN IF a.ret # "running" THEN a
               ELSE LET s2 == [a EXCEPT !.offset = @ + read_bytes,
                                        !.i = @ + 1]
                    IN IF s2.i = period
                       THEN for_each_block_report([s2 EXCEPT !.i = 0], fault,
                                                  "running")
                       ELSE s2

\* Ctx::run and Ctx::burn up to the InitSuccess message
Ctx_run_open(s, size, fault) ==
    IF fault = "open_src" THEN [s EXCEPT !.ret = "panic"]
    ELSE IF fault \in {"seek", "open_dest"} THEN [s EXCEPT !.ret = "Io"]
    ELSE LET t == send_msg(s, InitSuccess(size), fault)
         IN IF t.ret = "panic" THEN t ELSE for_each_block_new(t)

\* Ctx::run without src.seek(0) before verify
Ctx_run_finished_writing_mut(s, verify, fault) ==
    LET t == send_msg(s, FinishedWriting(verify), fault)
    IN IF t.ret = "panic" THEN t
       ELSE IF ~verify THEN [t EXCEPT !.ret = "Ok"]
       ELSE IF fault \in {"seek", "open_dest"} THEN [t EXCEPT !.ret = "Io"]
       ELSE for_each_block_new([t EXCEPT !.disk_pos = 0, !.readable = TRUE])

\* Ctx::run from burn's Ok to the start of verify's loop: FinishedWriting,
\* the early return without verify, src.seek(0), File::open(dest)
Ctx_run_finished_writing(s, verify, fault) ==
    LET t == send_msg(s, FinishedWriting(verify), fault)
    IN IF t.ret = "panic" THEN t
       ELSE IF ~verify THEN [t EXCEPT !.ret = "Ok"]
       ELSE IF fault \in {"seek", "open_dest"} THEN [t EXCEPT !.ret = "Io"]
       ELSE for_each_block_new([t EXCEPT !.file_pos = 0, !.disk_pos = 0,
                                         !.readable = TRUE])

bc_run_open ==
    /\ args.child = "burn"
    /\ pc = "run"
    /\ \E fault \in {"none", "open_src", "seek", "open_dest", "tx"} :
          st' = Raised(st, Ctx_run_open(st, L, fault), fault, "open")
    /\ pc' = After(st', "burn")
    /\ UNCHANGED <<file_data, checkpoint_period, args>>

bc_burn ==
    /\ args.child = "burn"
    /\ pc = "burn"
    /\ st.ret = "running"
    /\ \E fault \in {"none", "src_read", "dest_write", "seek", "tx"} :
          LET n == Raised(st, for_each_block(st, file_data,
                                             checkpoint_period, "burn",
                                             fault),
                          fault, "write")
          IN st' = IF n.ret = "running" THEN n
                   ELSE [n EXCEPT !.write_ret = n.ret]
    /\ pc' = IF st'.ret = "Ok" THEN "burn" ELSE After(st', "burn")
    /\ UNCHANGED <<file_data, checkpoint_period, args>>

bc_run_finished_writing ==
    /\ args.child = "burn"
    /\ pc = "burn"
    /\ st.ret = "Ok"
    /\ \E fault \in {"none", "tx", "seek", "open_dest"} :
          st' = Raised(st, Ctx_run_finished_writing(st, args.verify, fault),
                       fault, "verify")
    /\ pc' = After(st', "verify")
    /\ UNCHANGED <<file_data, checkpoint_period, args>>

bc_verify ==
    /\ args.child = "burn"
    /\ pc = "verify"
    /\ st.ret = "running"
    /\ \E fault \in {"none", "src_read", "dest_read", "seek", "tx"} :
          LET n == Raised(st, for_each_block(st, file_data,
                                             checkpoint_period, "verify",
                                             fault),
                          fault, "verify")
          IN st' = IF n.ret = "running" THEN n
                   ELSE [n EXCEPT !.verify_ret = n.ret]
    /\ pc' = After(st', "verify")
    /\ UNCHANGED <<file_data, checkpoint_period, args>>

bc_main ==
    /\ args.child = "burn"
    /\ pc = "final"
    /\ \E fault \in {"none", "tx"} :
          st' = [send_msg(st, final_msg(st.ret), fault) EXCEPT !.ret = st.ret]
    /\ pc' = "exit"
    /\ UNCHANGED <<file_data, checkpoint_period, args>>

(* ------------------------------ the worker ----------------------------- *)

\* A worker process at its start.  A File target is created empty,
\* write-only and grows; a Disk (or Partition) target exists with a fixed
\* capacity and is opened for reading and writing.
Init ==
    /\ file_data \in SeqsUpTo(Bytes, MaxLen)
    /\ checkpoint_period \in 1..RunPeriod
    /\ args \in [verify : BOOLEAN, target_type : {"File", "Disk"},
                 child : {"writer_process", "burn"}]
    /\ pc = "run"
    /\ \E size \in 0..MaxDisk, fill \in Bytes :
          st = IF args.target_type = "File"
               THEN NewState(<<>>, TRUE, FALSE)
               ELSE NewState([j \in 1..size |-> fill], FALSE, TRUE)

Next ==
    \/ wp_run_open
    \/ wp_run_write
    \/ wp_run_finished_writing
    \/ wp_run_verify
    \/ wp_main
    \/ bc_run_open
    \/ bc_burn
    \/ bc_run_finished_writing
    \/ bc_verify
    \/ bc_main

Spec == Init /\ [][Next]_vars

(* ----------------------- properties of the worker ----------------------- *)

\* the messages sent so far
ev == st.events

\* the messages sent so far without the terminal one
Body ==
    IF Len(ev) > 0 /\ IsTerminal(ev[Len(ev)])
    THEN SubSeq(ev, 1, Len(ev) - 1) ELSE ev

\* where FinishedWriting stands among them
FinishedAt == {k \in 1..Len(Body) : Body[k].type = "FinishedWriting"}

\* C3: the terminal message is last and unique.  In every worker run a
\* Success or Error message is the last message sent: none follows it, so
\* there is at most one.
C3_TerminalLastAndUnique ==
    \A k \in 1..Len(ev) : IsTerminal(ev[k]) => k = Len(ev)

C3_Witness ==
    /\ pc = "exit"
    /\ Len(ev) >= 4
    /\ ev[Len(ev)].type = "Error"

\* C4: message ordering.  The messages of a worker run are InitSuccess
\* (first, and only there), write-phase TotalBytes, FinishedWriting (at most
\* once, carrying the configured verify flag, only after the write phase
\* returned Ok, and present in every run that ends with Success),
\* verify-phase TotalBytes only when verifying, then the terminal message.
C4_MessageOrdering ==
    /\ \A k \in 1..Len(Body) :
          /\ Body[k].type \in {"InitSuccess", "TotalBytes", "FinishedWriting"}
          /\ (Body[k].type = "InitSuccess") <=> (k = 1)
    /\ Cardinality(FinishedAt) <= 1
    /\ \A k \in FinishedAt :
          /\ Body[k].verifying = args.verify
          /\ st.write_ret = "Ok"
          /\ \A j \in (k + 1)..Len(Body) :
                Body[j].type = "TotalBytes" /\ args.verify
    /\ st.write_ret \notin {"none", "Ok"} => FinishedAt = {}
    /\ (Len(ev) > 0 /\ ev[Len(ev)] = Success) => FinishedAt # {}

C4_Witness ==
    /\ pc = "exit"
    /\ \E k \in FinishedAt : k >= 3 /\ k + 2 <= Len(Body)
    /\ ev[Len(ev)] = Success

\* C5: Success is sent only if the write engine returned Ok and, when verify
\* was requested, the verify engine returned Ok too; without verify, Success
\* directly follows FinishedWriting{verifying: false} and the destination is
\* never read.
C5_SuccessOnlyAfterOk ==
    /\ ~args.verify => (st.requested_reads = <<>> /\ st.verify_ret = "none")
    /\ (Len(ev) > 0 /\ ev[Len(ev)] = Success) =>
          /\ st.write_ret = "Ok"
          /\ args.verify => st.verify_ret = "Ok"
          /\ ~args.verify =>
                (Len(ev) >= 2 /\ ev[Len(ev) - 1] = FinishedWriting(FALSE))

C5_Witness ==
    /\ Len(ev) > 0 /\ ev[Len(ev)] = Success
    /\ ~args.verify
    /\ Len(st.requested_writes) >= 2

\* no send has failed so far
ChannelUp == Len(st.attempts) = Len(ev)

\* C11: errors are fatal and propagate.  After the first failure of the
\* write or verify phase the destination sees no further read or write,
\* and a worker that exits with its channel up has sent Error with that
\* failure's kind as its last message.
C11_ErrorsPropagate ==
    st.failure.phase \in {"write", "verify"} =>
        /\ DestIO(st) = st.failure.io
        /\ (pc = "exit" /\ ChannelUp) =>
              (Len(ev) > 0 /\ ev[Len(ev)] = Error(st.failure.kind))

\* C12: open failure.  A worker whose source or destination could not be
\* opened (or whose source size could not be read) exits having sent Error
\* as its only message and having written nothing.
C12_OpenFailureIsTheOnlyMessage ==
    (pc = "exit" /\ st.failure.phase = "open" /\ ChannelUp) =>
        (ev = <<Error("Io")>> /\ st.requested_writes = <<>>)

\* C13: best-effort terminal report.  A worker that exits after a send of
\* InitSuccess, TotalBytes or FinishedWriting failed has attempted a
\* terminal send last.
C13_TerminalSendAttempted ==
    (pc = "exit" /\ ~ChannelUp) =>
        IsTerminal(st.attempts[Len(st.attempts)])

(* ----------------------- properties of checkpoints ---------------------- *)

RECURSIVE SumSeq(_)
\* the sum of a sequence of numbers
SumSeq(s) == IF s = <<>> THEN 0 ELSE s[1] + SumSeq(Tail(s))

\* the step sends a message
Sent == Len(st'.events) = Len(st.events) + 1

\* C14 as stated: with a destination of at least L bytes the dest field of
\* the k-th TotalBytes of WriteOp::execute is min(k*P*B, L).
C14_DestIsMinOfBlocksAndLength ==
    (pc = "WriteOp" /\ Len(st.disk) >= L) =>
        \A k \in 1..Len(ev) :
            ev[k].dest = Min(k * checkpoint_period * Len(st.buf), L)

\* C14, amended: with a destination of at least L bytes the dest field of
\* the k-th TotalBytes of WriteOp::execute is the number of bytes the
\* destination took of the writes issued before it, each of them B bytes:
\* min(n*B, capacity), n being k*P for a periodic checkpoint and the number
\* of all writes for the final one.
C14_DestIsBlocksWritten ==
    (pc = "WriteOp" /\ Len(st.disk) >= L) =>
        \A k \in 1..Len(ev) :
            ev[k].dest = Min(Min(k * checkpoint_period,
                                 Len(st.requested_writes)) * Len(st.buf),
                             Len(st.disk))

C14_Witness ==
    /\ pc = "WriteOp" /\ st.ret = "Ok" /\ Len(st.disk) >= L
    /\ L % Len(st.buf) # 0
    /\ Len(ev) >= 2 /\ ev[Len(ev)].dest > L

\* C15 as stated: the src field of every TotalBytes the write engine sends
\* is the number of decompressed bytes the engine has read so far.
C15_SrcIsBytesRead ==
    [][(pc = "WriteOp" /\ Sent) =>
          st'.events[Len(st'.events)].src = SumSeq(st'.src_reads)]_vars

\* C15, amended: the src field of every TotalBytes the write engine sends
\* is the number of bytes pulled from the counted source file: the bytes
\* the engine has read plus the bytes BufReader still holds.  It is never
\* below the bytes read and is L at the checkpoint of a run that returns Ok.
C15_SrcIsBytesPulled ==
    [][(pc = "WriteOp" /\ Sent) =>
          LET m == st'.events[Len(st'.events)]
          IN /\ m.src = SumSeq(st'.src_reads) + Len(st'.br)
             /\ m.src <= L
             /\ st'.ret = "Ok" => m.src = L]_vars

C15_Witness ==
    /\ pc = "WriteOp" /\ Len(ev) > 0 /\ st.i = 0 /\ st.br # <<>>
    /\ ev[Len(ev)].src > SumSeq(st.src_reads)

(* ------------------------- properties of writes ------------------------- *)

\* C16 as stated: every write a worker issues offers the bytes read for its
\* block and no more: buffer_size bytes, the final write the remaining
\* tail.
C16_WritesAreTheBytesRead ==
    \A k \in 1..Len(st.requested_writes) :
        st.requested_writes[k].len = st.src_reads[k]

\* C16, amended: burn's for_each_block offers exactly the bytes read for
\* the block (block_size, the final write the remaining tail), while
\* writer_process's WriteOp::execute offers buffer_size bytes in every
\* write, the final one included, of which the first read_bytes >= 1 are
\* the bytes read for the block.
C16_WriteLengthPerWorker ==
    \A k \in 1..Len(st.requested_writes) :
        LET w == st.requested_writes[k]
        IN IF args.child = "burn" THEN w.len = st.src_reads[k]
           ELSE w.len = run_buf_size /\ st.src_reads[k] \in 1..w.len

C16_Witness ==
    /\ args.child = "writer_process" /\ st.write_ret = "Ok"
    /\ \E k \in 1..Len(st.requested_writes) :
          st.requested_writes[k].len > st.src_reads[k]

\* C17: block-sized writes.  Every write WriteOp::execute requests of the
\* destination has length buf_size, the write of the final partial block
\* included, whatever the source length.
C17_BlockSizedWrites ==
    pc = "WriteOp" =>
        \A k \in 1..Len(st.requested_writes) :
            st.requested_writes[k].len = Len(st.buf)

C17_Witness ==
    /\ pc = "WriteOp" /\ st.ret = "Ok"
    /\ L % Len(st.buf) # 0
    /\ Len(st.requested_writes) >= 2

\* C18: source larger than destination.  With L above the destination's
\* capacity C, and the destination taking fewer bytes once full,
\* WriteOp::execute returns Ok and the destination holds the first C bytes
\* of the source.
C18_LargerSourceFillsDestination ==
    (pc = "WriteOp" /\ st.ret # "running" /\ L > Len(st.disk)) =>
        (st.ret = "Ok" /\ st.disk = Prefix(file_data, Len(st.disk)))

(* ------------------------- the status channel -------------------------- *)

\* the bytes the encoding treats specially: newline, backslash, quote
NL == "\n"
BS == "\\"
QT == "\""

\* Error(Io(description)): the error kind that carries free text
ErrorIo(description) ==
    [type |-> "Error", kind |-> "Io", description |-> description]

\* descriptions an Io error may carry, the special bytes among them
Descriptions ==
    {<<>>, <<"n">>, <<NL>>, <<BS>>, <<QT>>, <<BS, "n">>, <<NL, "n">>,
     <<QT, NL>>}

\* the messages a worker may send
StatusMessage ==
    {InitSuccess(n) : n \in 0..1}
        \cup {TotalBytes(s, d) : s \in 0..1, d \in 0..1}
        \cup {FinishedWriting(v) : v \in BOOLEAN}
        \cup {Success, Error("EndOfOutput"), Error("VerificationFailed")}
        \cup {ErrorIo(d) : d \in Descriptions}

\* a number's digits
Digits == <<"0", "1">>

RECURSIVE Escape(_)
\* a string's bytes that may not appear raw in it are escaped: no raw
\* newline is left
Escape(s) ==
    IF s = <<>> THEN <<>>
    ELSE (IF Head(s) = NL THEN <<BS, "n">>
          ELSE IF Head(s) \in {BS, QT} THEN <<BS, Head(s)>>
          ELSE <<Head(s)>>) \o Escape(Tail(s))

RECURSIVE Unescape(_)
\* the string an escaped string stands for
Unescape(s) ==
    IF s = <<>> THEN <<>>
    ELSE IF Head(s) = BS /\ Len(s) >= 2
    THEN <<IF s[2] = "n" THEN NL ELSE s[2]>> \o Unescape(Tail(Tail(s)))
    ELSE <<Head(s)>> \o Unescape(Tail(s))

\* serde_json::to_writer(&mut stream, &msg): the compact encoding of a
\* message
to_writer(msg) ==
    IF msg.type = "Success" THEN <<"Success">>
    ELSE IF msg.type = "InitSuccess"
    THEN <<"{", "InitSuccess", Digits[msg.input_file_bytes + 1], "}">>
    ELSE IF msg.type = "TotalBytes"
    THEN <<"{", "TotalBytes", Digits[msg.src + 1], Digits[msg.dest + 1],
           "}">>
    ELSE IF msg.type = "FinishedWriting"
    THEN <<"{", "FinishedWriting",
           IF msg.verifying THEN "true" ELSE "false", "}">>
    ELSE IF "description" \in DOMAIN msg
    THEN <<"{", "Error", "{", "Io", QT>> \o Escape(msg.description)
             \o <<QT, "}", "}">>
    ELSE <<"{", "Error", msg.kind, "}">>

\* what a record that is no message decodes to
Invalid == [type |-> "Invalid"]

\* the decoding of one record
from_str(line) ==
    LET n == Len(line)
        Num(d) == IF d = "0" THEN 0 ELSE 1
    IN IF line = <<"Success">> THEN Success
       ELSE IF n < 4 \/ line[1] # "{" \/ line[n] # "}" THEN Invalid
       ELSE IF n = 4 /\ line[2] = "InitSuccess" /\ line[3] \in {"0", "1"}
       THEN InitSuccess(Num(line[3]))
       ELSE IF n = 5 /\ line[2] = "TotalBytes" /\ line[3] \in {"0", "1"}
               /\ line[4] \in {"0", "1"}
       THEN TotalBytes(Num(line[3]), Num(line[4]))
       ELSE IF n = 4 /\ line[2] = "FinishedWriting"
               /\ line[3] \in {"true", "false"}
       THEN FinishedWriting(line[3] = "true")
       ELSE IF n = 4 /\ line[2] = "Error"
               /\ line[3] \in {"EndOfOutput", "VerificationFailed"}
       THEN Error(line[3])
       ELSE IF n >= 8 /\ line[2] = "Error" /\ line[3] = "{"
               /\ line[4] = "Io" /\ line[5] = QT /\ line[n - 2] = QT
               /\ line[n - 1] = "}"
       THEN ErrorIo(Unescape(SubSeq(line, 6, n - 3)))
       ELSE Invalid

\* the channel: the bytes in flight, the receiver's unfinished line, the
\* messages sent and the messages received
InitFraming ==
    /\ file_data = <<>>
    /\ checkpoint_period = 1
    /\ args = NoArgs
    /\ pc = "channel"
    /\ st = [wire |-> <<>>, line |-> <<>>, sent |-> <<>>, received |-> <<>>]

\* send_msg without the newline
StatusReporter_send_msg_mut ==
    /\ pc = "channel"
    /\ Len(st.sent) < MaxMsgs
    /\ \E msg \in StatusMessage :
          st' = [st EXCEPT !.wire = @ \o to_writer(msg),
                           !.sent = Append(@, msg)]
    /\ UNCHANGED <<file_data, checkpoint_period, args, pc>>

\* StatusReporter::send_msg: the encoding, then one newline
StatusReporter_send_msg ==
    /\ pc = "channel"
    /\ Len(st.sent) < MaxMsgs
    /\ \E msg \in StatusMessage :
          st' = [st EXCEPT !.wire = @ \o to_writer(msg) \o <<NL>>,
                           !.sent = Append(@, msg)]
    /\ UNCHANGED <<file_data, checkpoint_period, args, pc>>

\* the receiver takes the next byte: a newline ends the record, which is
\* decoded on its own
read_msg ==
    /\ pc = "channel"
    /\ st.wire # <<>>
    /\ st' = IF Head(st.wire) = NL
             THEN [st EXCEPT !.wire = Tail(@), !.line = <<>>,
                             !.received = Append(@, from_str(st.line))]
             ELSE [st EXCEPT !.wire = Tail(@),
                             !.line = Append(@, Head(st.wire))]
    /\ UNCHANGED <<file_data, checkpoint_period, args, pc>>

NextFraming == StatusReporter_send_msg \/ read_msg

SpecFraming == InitFraming /\ [][NextFraming]_vars

\* C19: framing preserves the stream.  The messages received are always
\* the first of the messages sent, in the order sent, and once every byte
\* in flight is consumed they are exactly the messages sent, with no
\* unfinished record left.
C19_FramingPreservesStream ==
    pc = "channel" =>
        /\ Len(st.received) <= Len(st.sent)
        /\ st.received = SubSeq(st.sent, 1, Len(st.received))
        /\ st.wire = <<>> => (st.received = st.sent /\ st.line = <<>>)

C19_Witness ==
    /\ pc = "channel" /\ st.wire = <<>>
    /\ Len(st.received) = MaxMsgs
    /\ \E k \in 1..MaxMsgs :
          /\ "description" \in DOMAIN st.sent[k]
          /\ \E j \in 1..Len(st.sent[k].description) :
                st.sent[k].description[j] = NL

(* --------------------------- escalation -------------------------------- *)

\* the token an escalated child prints first
SUCCESS_TOKEN == "znxbnvm,,xbnzcvnmxzv,.,,,"

\* what a child may print: the token, or text of the escalation tool
Outputs == {SUCCESS_TOKEN, "Password: ", "Sorry, try again."}

\* before run_escalate: no child, no listener, nothing reported
InitEscalate ==
    /\ file_data = <<>>
    /\ checkpoint_period = 1
    /\ args = NoArgs
    /\ pc = "run_escalate"
    /\ st = [stdout |-> <<>>, child |-> "none", listener |-> "none",
             ret |-> "none", escalated |-> "none"]

\* run_escalate: detect()?, the pipes, spawn()?, the listener task, Ok
run_escalate ==
    /\ pc = "run_escalate"
    /\ \E detected \in BOOLEAN, spawned \in BOOLEAN :
          IF ~detected
          THEN st' = [st EXCEPT !.ret = "UnixNotDetected"] /\ pc' = "done"
          ELSE IF ~spawned
          THEN st' = [st EXCEPT !.ret = "Io"] /\ pc' = "done"
          ELSE /\ st' = [st EXCEPT !.ret = "Ok", !.child = "running",
                                   !.listener = "running"]
               /\ pc' = "in_progress"
    /\ UNCHANGED <<file_data, checkpoint_period, args>>

\* the child prints to its stdout
child_write ==
    /\ pc = "in_progress"
    /\ st.child = "running"
    /\ Len(st.stdout) < MaxOut
    /\ \E o \in Outputs : st' = [st EXCEPT !.stdout = Append(@, o)]
    /\ UNCHANGED <<file_data, checkpoint_period, args, pc>>

\* the child exits
child_exit ==
    /\ pc = "in_progress"
    /\ st.child = "running"
    /\ st' = [st EXCEPT !.child = "exited"]
    /\ UNCHANGED <<file_data, checkpoint_period, args, pc>>

\* the listener task reads the first output of the child: true for the
\* token, false for any other output, a read error or end of file; the
\* task may also panic
listener ==
    /\ pc = "in_progress"
    /\ st.listener = "running"
    /\ st.stdout # <<>> \/ st.child = "exited"
    /\ \E fault \in {"none", "read", "panic"} :
          st' = [st EXCEPT !.listener =
                    IF fault = "panic" THEN "panicked"
                    ELSE IF fault = "none" /\ st.stdout # <<>>
                            /\ st.stdout[1] = SUCCESS_TOKEN
                    THEN "true" ELSE "false"]
    /\ UNCHANGED <<file_data, checkpoint_period, args, pc>>

\* EscalationInProgress::await_escalation: self.listener.await?; Ok(())
await_escalation ==
    /\ pc = "in_progress"
    /\ st.listener \in {"true", "false", "panicked"}
    /\ st' = [st EXCEPT !.escalated =
                 IF st.listener = "panicked" THEN "JoinError" ELSE "Ok"]
    /\ pc' = "done"
    /\ UNCHANGED <<file_data, checkpoint_period, args>>

NextEscalate ==
    \/ run_escalate
    \/ child_write
    \/ child_exit
    \/ listener
    \/ await_escalation

SpecEscalate == InitEscalate /\ [][NextEscalate]_vars

\* C20: sentinel gating.  await_escalation reports success only when the
\* listener has read SUCCESS_TOKEN as the first output of the child: never
\* after another first output, a read error or an early exit.
C20_SentinelGating ==
    (pc = "done" /\ st.escalated = "Ok") =>
        (st.listener = "true" /\ st.stdout # <<>>
            /\ st.stdout[1] = SUCCESS_TOKEN)

(* ------------------------ properties of lockstep ----------------------- *)

\* the bytes offered to the destination by the first k writes
Offered(k) == SumSeq([j \in 1..k |-> st.requested_writes[j].len])

\* the bytes the destination returned to the first k reads
Returned(k) == SumSeq([j \in 1..k |-> st.requested_reads[j].read])

\* the decompressed bytes the first k source reads returned
Consumed(k) == SumSeq(SubSeq(st.src_reads, 1, k))

\* C21: write lockstep under partial reads.  Every block WriteOp::execute
\* writes is offered to the destination at the offset it has in the
\* source: the bytes offered before it are as many as the bytes read before
\* it, also after a source read that returned fewer than buffer_size bytes
\* before end of stream.
C21_WriteLockstep ==
    pc = "WriteOp" =>
        \A k \in 1..Len(st.requested_writes) :
            Offered(k - 1) = Consumed(k - 1)

\* C22: verify lockstep under partial reads.  With a destination of at
\* least L bytes, every block VerifyOp::execute compares is read from the
\* destination at the offset it has in the source: the bytes read of the
\* destination before it are as many as the bytes read of the source before
\* it.
C22_VerifyLockstep ==
    (pc = "VerifyOp" /\ Len(st.disk) >= L) =>
        \A k \in 1..Len(st.requested_reads) :
            Returned(k - 1) = Consumed(k - 1)

(* --------------------- properties of the verify phase ------------------ *)

\* C23: verify on a File target.  A worker run on a File target with
\* verify requested, whose write phase returned Ok with the destination
\* holding the source's bytes, and in which no I/O call or send was made to
\* fail, ends with Success.
C23_VerifyOnFileTarget ==
    (/\ pc = "exit" /\ args.target_type = "File" /\ args.verify
     /\ st.write_ret = "Ok" /\ Prefix(st.disk, L) = file_data
     /\ ~st.faulted /\ ChannelUp)
        => (Len(ev) > 0 /\ ev[Len(ev)] = Success)

\* the positions of a worker inside its verify engine
VerifyPcs == {"VerifyOp", "verify"}

\* the step from the write engine's Ok on: FinishedWriting, the seeks
FinishedWritingStep == pc \in {"WriteOp", "burn"} /\ st.ret = "Ok"

\* C24: verify starts from offset 0 on both sides.  The step that takes a
\* worker from its write phase into the verify engine leaves the source
\* and the destination cursor at 0 with nothing buffered, whatever the
\* write phase read and wrote; and when that step fails on a re-seek (or on
\* reopening the destination) no destination read is made and main is left
\* to send Error(Io).
C24_VerifyStartsAtZero ==
    [][FinishedWritingStep =>
          /\ pc' \in VerifyPcs =>
                (/\ st'.file_pos = 0 /\ st'.disk_pos = 0 /\ st'.br = <<>>
                 /\ st'.ret = "running")
          /\ st'.ret = "Io" =>
                (/\ pc' = "final" /\ st'.requested_reads = <<>>
                 /\ final_msg(st'.ret) = Error("Io"))]_vars

C24_Witness ==
    /\ pc \in VerifyPcs /\ st.ret = "running"
    /\ st.requested_reads = <<>> /\ st.file_pos = 0
    /\ Len(st.requested_writes) >= 2

(* ---------------------- properties of the cadence --------------------- *)

\* the source reads so far that returned a block
Blocks(s) == {k \in 1..Len(s.src_reads) : s.src_reads[k] > 0}

\* in state s of a write run every block read was written, one TotalBytes
\* was sent after each checkpoint_period blocks and one more on end of
\* stream
Cadence(s) ==
    LET m == Cardinality(Blocks(s))
    IN /\ Len(s.requested_writes) = m
       /\ \A k \in 1..Len(s.events) : s.events[k].type = "TotalBytes"
       /\ Len(s.events) =
              (m \div checkpoint_period) + (IF s.ret = "Ok" THEN 1 ELSE 0)

\* in state s the newest flush of the destination came after every write
\* issued so far, and there is one flush for each message
FlushedLast(s) ==
    /\ Len(s.flushes) = Len(s.events)
    /\ s.flushes[Len(s.flushes)] = Len(s.requested_writes)

\* C25: checkpoint cadence.  A WriteOp::execute run that has read m
\* non-empty blocks has sent m div P periodic TotalBytes, and exactly one
\* more when it returned Ok on end of stream; every TotalBytes is sent
\* right after a flush of the destination, no write in between.
C25_CheckpointCadence ==
    [][pc = "WriteOp" =>
          (Cadence(st') /\ (Sent => FlushedLast(st')))]_vars

C25_Witness ==
    /\ pc = "WriteOp" /\ st.ret = "Ok"
    /\ Cardinality(Blocks(st)) = 2 * checkpoint_period
    /\ Len(ev) = 3
    /\ ev[3] = ev[2]

(* ------------------ properties of the final block --------------------- *)

\* the destination d with the byte at offset o flipped
Flip(d, o) == [j \in 1..Len(d) |-> IF j = o + 1 THEN 1 - d[j] ELSE d[j]]

\* the destination offsets past the source's end that lie in the block of
\* the source's last, partial block
TailOffsets ==
    {o \in L..(Len(st.disk) - 1) :
        o \div Len(st.buf) = (L - 1) \div Len(st.buf)}

\* no source read is cut short before end of stream: buf_size divides
\* BufReader's capacity or is not below it
NoSplit ==
    Len(st.buf) >= DEFAULT_BUF_SIZE \/ DEFAULT_BUF_SIZE % Len(st.buf) = 0

\* what VerifyOp::execute returns for destination d, other things equal
ResultOn(d) ==
    VerifyOp_run(VerifyOp_new(NewState(d, FALSE, TRUE), Len(st.buf)),
                 file_data, checkpoint_period).ret

\* a finished verify run on a source whose last block is partial and a
\* destination whose first L bytes are the source's
PartialLastBlock ==
    /\ pc = "VerifyOp" /\ st.ret # "running"
    /\ L % Len(st.buf) # 0
    /\ Len(st.disk) >= L /\ Prefix(st.disk, L) = file_data

\* C26 as stated: with a partial last block and the first L bytes of the
\* destination equal to the source, a destination byte flipped at an offset
\* >= L inside the last block's buf_size range makes VerifyOp::execute
\* return Err(VerificationFailed).
C26_TailFlipFailsVerification ==
    PartialLastBlock =>
        \A o \in TailOffsets :
            ResultOn(Flip(st.disk, o)) = "VerificationFailed"

\* C26, amended: with a partial last block, the first L bytes of the
\* destination equal to the source and no source read cut short before end
\* of stream, VerifyOp::execute returns Ok, and still returns Ok with a
\* destination byte flipped at an offset >= L inside the last block's
\* buf_size range: only the bytes read of the source are compared.
C26_TailFlipIsNotCompared ==
    (PartialLastBlock /\ NoSplit) =>
        /\ st.ret = "Ok"
        /\ \A o \in TailOffsets : ResultOn(Flip(st.disk, o)) = "Ok"

C26_Witness ==
    /\ PartialLastBlock /\ NoSplit /\ st.ret = "Ok"
    /\ TailOffsets # {}
    /\ Len(st.requested_reads) >= 2

(* --------------------------- run termination --------------------------- *)

\* a worker process keeps running until it exits: some step of main / run is
\* always taken while one is possible
SpecLive == Init /\ [][Next]_vars /\ WF_vars(Next)

\* C27: run termination.  Every worker run eventually exits, and one whose
\* channel accepted every message has by then sent a terminal message
\* (Success or Error) last.
C27_RunTerminates ==
    <>(/\ pc = "exit"
       /\ ChannelUp => (Len(ev) > 0 /\ IsTerminal(ev[Len(ev)])))

(* ------------------------- progress reports ---------------------------- *)

\* the positions in the messages sent of a TotalBytes that directly follows
\* another one: two successive reports of one phase (FinishedWriting
\* separates the phases)
Successive ==
    {k \in 2..Len(ev) :
        ev[k - 1].type = "TotalBytes" /\ ev[k].type = "TotalBytes"}

\* C28: progress is monotone and bounded.  Within one phase the src and
\* dest fields of successive TotalBytes messages are non-decreasing, and
\* the src of every TotalBytes is at most the input_file_bytes that
\* InitSuccess, the first message, reported.
C28_ProgressMonotoneAndBounded ==
    /\ \A k \in Successive :
          ev[k - 1].src <= ev[k].src /\ ev[k - 1].dest <= ev[k].dest
    /\ \A k \in 1..Len(ev) :
          ev[k].type = "TotalBytes" =>
              /\ ev[1].type = "InitSuccess"
              /\ ev[k].src <= ev[1].input_file_bytes

C28_Witness ==
    /\ pc = "exit"
    /\ \E k \in Successive :
          /\ \E j \in 1..(k - 1) : ev[j].type = "FinishedWriting"
          /\ ev[k - 1].src < ev[k].src
          /\ ev[k].src = ev[1].input_file_bytes
          /\ ev[k].dest > ev[k].src
    /\ \E k \in Successive :
          /\ \A j \in 1..k : ev[j].type # "FinishedWriting"
          /\ ev[k - 1].dest < ev[k].dest

=============================================================================
